---- MODULE Spec2Model ----
(***************************************************************************)
(* A model of rust-ipld-git: the parsers of serialized git objects         *)
(* (src/src/lib.rs) and the byte helpers they rest on (src/src/util.rs).   *)
(*                                                                         *)
(* A byte buffer (&[u8]) is a sequence of numbers in 0..255.  A Rust       *)
(* String is the sequence of its UTF-8 bytes.  A Result is a record whose  *)
(* field kind is "ok" or "err"; a panic (an out-of-range slice,            *)
(* unimplemented!()) is the record Panic(..), of kind "panic".  A u64 is   *)
(* the sequence of its decimal digits without leading zeros, since the     *)
(* values at the edge of its range do not fit the model checker's          *)
(* integers.                                                               *)
(***************************************************************************)
EXTENDS Integers, Sequences, FiniteSets, TLC

----------------------------------------------------------------------------
(* Bytes the parsers split at, and the digits of the formats.              *)

NUL == 0
LF == 10
SP == 32
PLUS == 43
LT == 60
GT == 62
ZERO == 48
NINE == 57
UpperA == 65
UpperF == 70
LowerA == 97
LowerF == 102

SHA1_DIGEST_LEN == 20
SHA1_CODE == 17
SHA1_SIZE == 20

(* The literal tokens the code compares with: b"blob", b"tree", ...        *)
B_blob == <<98, 108, 111, 98>>
B_tree == <<116, 114, 101, 101>>
B_commit == <<99, 111, 109, 109, 105, 116>>
B_tag == <<116, 97, 103>>
B_parent == <<112, 97, 114, 101, 110, 116>>
B_author == <<97, 117, 116, 104, 111, 114>>
B_committer == <<99, 111, 109, 109, 105, 116, 116, 101, 114>>

(* u64::MAX, 18446744073709551615, as decimal digits.                      *)
U64_MAX == <<49, 56, 52, 52, 54, 55, 52, 52, 48, 55,
             51, 55, 48, 57, 53, 53, 49, 54, 49, 53>>

----------------------------------------------------------------------------
(* Results, options and panics.                                            *)

None == [some |-> FALSE]
Some(x) == [some |-> TRUE, v |-> x]

Err(m) == [kind |-> "err", msg |-> m]
Panic(m) == [kind |-> "panic", msg |-> m]

Tail_from(s, i) == SubSeq(s, i, Len(s))

----------------------------------------------------------------------------
(* util.rs                                                                 *)

(* s.iter().enumerate().find(|&(_, &el)| el == val): the first position    *)
(* (from 1) holding val, 0 when there is none.                             *)
FirstIndex(s, val) ==
    IF \E i \in 1..Len(s) : s[i] = val
    THEN CHOOSE i \in 1..Len(s) :
             s[i] = val /\ \A j \in 1..(i-1) : s[j] # val
    ELSE 0

(* Two slips of the slicing: the sentinel left at the head of the second   *)
(* slice, and the second slice not cut at all.                             *)
cleave_keep_sentinel(s, val) ==
    LET i == FirstIndex(s, val)
    IN  IF i = 0 THEN None
        ELSE [some |-> TRUE, before |-> SubSeq(s, 1, i-1), after |-> Tail_from(s, i)]

cleave_no_consume(s, val) ==
    LET i == FirstIndex(s, val)
    IN  IF i = 0 THEN None
        ELSE [some |-> TRUE, before |-> SubSeq(s, 1, i-1), after |-> s]

(* &s[..i] and &s[i+1..] for the first i with s[i] == val                  *)

cleave_out_at_value(s, val) ==
    LET i == FirstIndex(s, val)
    IN  IF i = 0 THEN None
        ELSE [some |-> TRUE, before |-> SubSeq(s, 1, i-1), after |-> Tail_from(s, i+1)]

(* Cid::new(codec, version, &mh)                                           *)
Cid(codec, version, mh) == [version |-> version, codec |-> codec, hash |-> mh]

(* A slip of the length check: only a digest too short refused.            *)
sha1_to_cid_short_only(digest) ==
    IF Len(digest) < SHA1_DIGEST_LEN
    THEN [kind |-> "err", msg |-> "Cannot convert byte slice to Cid",
          len |-> Len(digest)]
    ELSE [kind |-> "ok",
          cid |-> Cid("GitRaw", 1, <<SHA1_CODE, SHA1_SIZE>> \o digest)]

sha1_to_cid(digest) ==
    IF Len(digest) # SHA1_DIGEST_LEN
    THEN [kind |-> "err", msg |-> "Cannot convert byte slice to Cid",
          len |-> Len(digest)]
    ELSE [kind |-> "ok",
          cid |-> Cid("GitRaw", 1, <<SHA1_CODE, SHA1_SIZE>> \o digest)]

----------------------------------------------------------------------------
(* Library conversions the parsers call.                                   *)

IsCont(b) == b >= 128 /\ b <= 191

(* str::from_utf8: whether s, read from position i, is well-formed UTF-8   *)
(* (no overlong forms, no surrogates, nothing above U+10FFFF).             *)
RECURSIVE Utf8From(_, _)
Utf8From(s, i) ==
    IF i > Len(s) THEN TRUE
    ELSE LET b == s[i]
             at(k) == IF i + k <= Len(s) THEN s[i+k] ELSE 0
         IN  CASE b < 128 -> Utf8From(s, i+1)
               [] b >= 194 /\ b <= 223 ->
                    IsCont(at(1)) /\ Utf8From(s, i+2)
               [] b >= 224 /\ b <= 239 ->
                    /\ IsCont(at(1))
                    /\ (b = 224 => at(1) >= 160)
                    /\ (b = 237 => at(1) <= 159)
                    /\ IsCont(at(2))
                    /\ Utf8From(s, i+3)
               [] b >= 240 /\ b <= 244 ->
                    /\ IsCont(at(1))
                    /\ (b = 240 => at(1) >= 144)
                    /\ (b = 244 => at(1) <= 143)
                    /\ IsCont(at(2))
                    /\ IsCont(at(3))
                    /\ Utf8From(s, i+4)
               [] OTHER -> FALSE

from_utf8_ok(s) == Utf8From(s, 1)

(* The value of one hexadecimal digit, -1 for any other byte.              *)
HexVal(c) ==
    CASE c >= ZERO /\ c <= NINE -> c - ZERO
      [] c >= LowerA /\ c <= LowerF -> c - LowerA + 10
      [] c >= UpperA /\ c <= UpperF -> c - UpperA + 10
      [] OTHER -> -1

(* hex::decode: an odd length or a byte that is no hex digit is an error.  *)
hex_decode(data) ==
    IF Len(data) % 2 # 0 \/ \E i \in 1..Len(data) : HexVal(data[i]) < 0
    THEN [kind |-> "err"]
    ELSE [kind |-> "ok",
          bytes |-> [i \in 1..(Len(data) \div 2) |->
                        16 * HexVal(data[2*i - 1]) + HexVal(data[2*i])]]

IsDigit(c) == c >= ZERO /\ c <= NINE

RECURSIVE StripZeros(_)
StripZeros(ds) ==
    IF Len(ds) > 1 /\ ds[1] = ZERO THEN StripZeros(Tail(ds)) ELSE ds

(* a <= b for two digit sequences without leading zeros                    *)
RECURSIVE DigitsLeq(_, _)
DigitsLeq(a, b) ==
    IF Len(a) # Len(b) THEN Len(a) < Len(b)
    ELSE IF Len(a) = 0 THEN TRUE
    ELSE IF a[1] # b[1] THEN a[1] < b[1]
    ELSE DigitsLeq(Tail(a), Tail(b))

(* n as u64: the decimal digits of a length                                *)
RECURSIVE ToU64(_)
ToU64(n) ==
    IF n < 10 THEN <<ZERO + n>>
    ELSE Append(ToU64(n \div 10), ZERO + (n % 10))

(* s.parse::<u64>(): an optional leading +, then one or more digits, the   *)
(* value no greater than u64::MAX.                                         *)
parse_u64(s) ==
    LET digits == IF Len(s) > 0 /\ s[1] = PLUS THEN Tail(s) ELSE s
    IN  IF Len(digits) = 0 THEN [kind |-> "err", why |-> "Empty"]
        ELSE IF \E i \in 1..Len(digits) : ~IsDigit(digits[i])
             THEN [kind |-> "err", why |-> "InvalidDigit"]
        ELSE IF ~DigitsLeq(StripZeros(digits), U64_MAX)
             THEN [kind |-> "err", why |-> "Overflow"]
        ELSE [kind |-> "ok", n |-> StripZeros(digits)]

----------------------------------------------------------------------------
(* lib.rs: the object header                                               *)

(* A slip of the size check: the declared size taken as an upper bound.    *)
size_differs_longer_only(bytes, size) == ~DigitsLeq(ToU64(Len(bytes)), size)

(* (bytes.len() as u64) != size                                            *)
size_differs(bytes, size) == ToU64(Len(bytes)) # size

parse_object_header(buf) ==
    LET c1 == cleave_out_at_value(buf, NUL)
    IN  IF ~c1.some
        THEN Err("Invalid format for git object, missing null byte")
        ELSE
        LET header == c1.before
            bytes == c1.after
            c2 == cleave_out_at_value(header, SP)
        IN  IF ~c2.some
            THEN Err("Invalid format for git object header")
            ELSE
            LET type_ == c2.before
                size == c2.after
                known == {B_blob, B_tree, B_commit, B_tag}
                obj_type == CASE type_ = B_blob -> "Blob"
                              [] type_ = B_tree -> "Tree"
                              [] type_ = B_commit -> "Commit"
                              [] OTHER -> "Tag"
            IN  IF type_ \notin known
                THEN [kind |-> "err", msg |-> "Invalid object type",
                      got |-> type_]
                ELSE IF ~from_utf8_ok(size)
                THEN Err("Error converting the object size to a string")
                ELSE
                LET n == parse_u64(size)
                IN  IF n.kind = "err"
                    THEN Err("Error parsing object size as an integer")
                    ELSE IF size_differs(bytes, n.n)
                    THEN [kind |-> "err", msg |-> "Size mismatch",
                          declared |-> n.n, actual |-> ToU64(Len(bytes))]
                    ELSE [kind |-> "ok", bytes |-> bytes,
                          obj_type |-> obj_type]

----------------------------------------------------------------------------
(* lib.rs: blobs and trees                                                 *)

HASH_LEN == 20

parse_blob_object(bytes) == [kind |-> "ok", node |-> [type |-> "Blob", data |-> bytes]]

(* Tree::new(): entries is the HashMap, a function from the names          *)
(* inserted so far; order is the Vec of names.                             *)
Tree_new == [type |-> "Tree", entries |-> <<>>, order |-> <<>>]

(* HashMap::insert: a later entry of the same name replaces the earlier.   *)
HashMap_insert(m, k, v) ==
    [x \in (DOMAIN m) \cup {k} |-> IF x = k THEN v ELSE m[x]]

add_entry(tree, entry) ==
    [tree EXCEPT !.entries = HashMap_insert(tree.entries, entry.name, entry),
                 !.order = Append(tree.order, entry.name)]

parse_tree_entry(buf) ==
    IF Len(buf) = 0 THEN [kind |-> "ok", entry |-> None, rest |-> buf]
    ELSE
    LET c1 == cleave_out_at_value(buf, SP)
    IN  IF ~c1.some THEN Err("Could not read mode of tree entry")
        ELSE
        LET mode_bytes == c1.before
            c2 == cleave_out_at_value(c1.after, NUL)
        IN  IF ~c2.some THEN Err("Could not read name of tree entry")
            ELSE
            LET name_bytes == c2.before
                rest == c2.after
            IN  IF Len(rest) < HASH_LEN
                THEN Panic("range end index 20 out of range for slice")
                ELSE
                LET hash_bytes == SubSeq(rest, 1, HASH_LEN)
                    rest2 == Tail_from(rest, HASH_LEN + 1)
                    cid == sha1_to_cid(hash_bytes)
                IN  IF ~from_utf8_ok(mode_bytes)
                    THEN Err("Tree entry mode is invalid, contains non utf-8 characters")
                    ELSE IF ~from_utf8_ok(name_bytes)
                    THEN Err("Tree entry name is invalid, contains non utf-8 characters")
                    ELSE IF cid.kind # "ok" THEN cid
                    ELSE [kind |-> "ok",
                          entry |-> Some([mode |-> mode_bytes,
                                          name |-> name_bytes,
                                          cid |-> cid.cid]),
                          rest |-> rest2]

----------------------------------------------------------------------------
(* lib.rs: author and committer values                                     *)

byteslice_to_string(s) ==
    IF from_utf8_ok(s) THEN [kind |-> "ok", s |-> s]
    ELSE Err("Error converting to utf-8 string")

(* &name[..name.len()-1], for a name that is not empty                     *)
strip_trailing(name) == SubSeq(name, 1, Len(name) - 1)

(* A slip: the space after '>' left in place.                              *)
strip_leading_none(buf) == buf

(* &buf[1..], for a buf that is not empty                                  *)
strip_leading(buf) == Tail_from(buf, 2)

parse_user_info(buf) ==
    LET c1 == cleave_out_at_value(buf, LT)
    IN  IF ~c1.some
        THEN Err("User info is missing an email enclosed in angle brackets")
        ELSE IF Len(c1.before) = 0
        THEN Panic("name.len()-1 underflows, or the slice end is out of range")
        ELSE
        LET name == strip_trailing(c1.before)
            c2 == cleave_out_at_value(c1.after, GT)
        IN  IF ~c2.some
            THEN Err("User info email is missing a closing angle bracket")
            ELSE IF Len(c2.after) = 0
            THEN Panic("range start index 1 out of range for slice of length 0")
            ELSE
            LET email == c2.before
                c3 == cleave_out_at_value(strip_leading(c2.after), SP)
            IN  IF ~c3.some
                THEN Err("User info date must be of the form '<unix timestamp> <timezone offset>'")
                ELSE
                LET n == byteslice_to_string(name)
                    e == byteslice_to_string(email)
                    ts == byteslice_to_string(c3.before)
                    tz == byteslice_to_string(c3.after)
                IN  IF n.kind # "ok" THEN n
                    ELSE IF e.kind # "ok" THEN e
                    ELSE IF ts.kind # "ok" THEN ts
                    ELSE IF tz.kind # "ok" THEN tz
                    ELSE [kind |-> "ok",
                          info |-> [name |-> n.s, email |-> e.s,
                                    timestamp |-> ts.s, timezone |-> tz.s]]

----------------------------------------------------------------------------
(* lib.rs: commits.  Each arm of `match name` takes the local it reads and *)
(* the line's data; it answers the local's new value, or how the parse     *)
(* ends.                                                                   *)

commit_tree_field(tree_cid, data) ==
    LET digest == hex_decode(data)
    IN  IF digest.kind # "ok" THEN Err("Tree hash is not valid hexadecimal")
        ELSE IF tree_cid.some THEN Err("Invalid second tree entry found")
        ELSE LET c == sha1_to_cid(digest.bytes)
             IN  IF c.kind # "ok" THEN c
                 ELSE [kind |-> "ok", v |-> Some(c.cid)]

commit_parent_field(parents, data) ==
    LET digest == hex_decode(data)
    IN  IF digest.kind # "ok" THEN Err("Tree hash is not valid hexadecimal")
        ELSE LET c == sha1_to_cid(digest.bytes)
             IN  IF c.kind # "ok" THEN c
                 ELSE [kind |-> "ok", v |-> Append(parents, c.cid)]

(* A slip: a second author line replacing the first.                       *)
commit_author_field_overwrite(author_info, data) ==
    LET u == parse_user_info(data)
    IN  IF u.kind # "ok" THEN u ELSE [kind |-> "ok", v |-> Some(u.info)]

commit_author_field(author_info, data) ==
    IF author_info.some THEN Err("Invalid second author entry found")
    ELSE LET u == parse_user_info(data)
         IN  IF u.kind # "ok" THEN u ELSE [kind |-> "ok", v |-> Some(u.info)]

commit_committer_field(committer_info, data) ==
    IF committer_info.some THEN Err("Invalid second committer entry found")
    ELSE LET u == parse_user_info(data)
         IN  IF u.kind # "ok" THEN u ELSE [kind |-> "ok", v |-> Some(u.info)]

missing_field_error(name) == [kind |-> "err", msg |-> "Missing header field", field |-> name]

(* The code after the loop: the three required fields, then the Commit.    *)
commit_finish(t, p, a, c) ==
    IF ~t.some THEN missing_field_error("tree")
    ELSE IF ~a.some THEN missing_field_error("author")
    ELSE IF ~c.some THEN missing_field_error("committer")
    ELSE [kind |-> "ok",
          node |-> [type |-> "Commit", tree |-> t.v, parents |-> p,
                    author |-> a.v, committer |-> c.v]]

----------------------------------------------------------------------------
(* Node::links                                                             *)

Link_new(cid) == [cid |-> cid]

(* Every order in which self.entries.iter() may visit the map: its keys    *)
(* once each, in an order the hasher of the run decides.                   *)
HashMap_iter_orders(m) ==
    LET n == Cardinality(DOMAIN m)
    IN  {s \in [1..n -> DOMAIN m] : \A i, j \in 1..n : i # j => s[i] # s[j]}

links_of(node) ==
    CASE node.type = "Blob" -> {<<>>}
      [] node.type = "Tree" ->
            {[i \in 1..Len(s) |-> Link_new(node.entries[s[i]].cid)] :
                s \in HashMap_iter_orders(node.entries)}
      [] node.type = "Commit" ->
            {<<Link_new(node.tree)>> \o
                 [i \in 1..Len(node.parents) |-> Link_new(node.parents[i])]}

----------------------------------------------------------------------------
(* The buffers the parsers are run on.                                     *)

MaxLen == 3
MaxDelta == 1
MaxPayload == 2
MaxEntries == 2
MaxLines == 4

SeqsUpTo(S, n) == UNION {[1..k -> S] : k \in 0..n}

RECURSIVE Concat(_)
Concat(ss) == IF Len(ss) = 0 THEN <<>> ELSE Head(ss) \o Concat(Tail(ss))

HexDigit(n) == IF n < 10 THEN ZERO + n ELSE LowerA + (n - 10)

(* lowercase hexadecimal, as git writes a digest in a commit               *)
HexEncode(bs) ==
    [i \in 1..(2 * Len(bs)) |->
        IF i % 2 = 1 THEN HexDigit(bs[(i + 1) \div 2] \div 16)
                     ELSE HexDigit(bs[i \div 2] % 16)]

CleaveBytes == {NUL, SP, UpperA}
CleaveInputs == SeqsUpTo(CleaveBytes, MaxLen)

(* digests of 0 bytes and of about 20 bytes: constant ones and ramps       *)
DigestInputs ==
    {[i \in 1..n |-> (b + k * i) % 256] :
        n \in {0} \cup ((SHA1_DIGEST_LEN - MaxDelta)..(SHA1_DIGEST_LEN + MaxDelta)),
        b \in {0, 17, 255}, k \in {0, 1}}

D1 == [i \in 1..20 |-> 17]
D2 == [i \in 1..20 |-> (31 + i) % 256]

(* <type> SP <size> NUL <payload>                                          *)
Header(type, size, payload) == type \o <<SP>> \o size \o <<NUL>> \o payload

Object(type, payload) == Header(type, ToU64(Len(payload)), payload)

HeaderTypes == {B_blob, B_tree, B_commit, B_tag}
OtherTypes == {<<98, 108, 117, 98>>}
(* 18446744073709551616 = u64::MAX + 1                                     *)
TooBig == <<49, 56, 52, 52, 54, 55, 52, 52, 48, 55,
            51, 55, 48, 57, 53, 53, 49, 54, 49, 54>>
DecimalSizes == {<<48>>, <<49>>, <<50>>, <<51>>, <<48, 50>>, U64_MAX, TooBig}
OtherSizes == {<<>>, <<PLUS, 49>>, <<120>>, <<255>>, <<45, 49>>}
HeaderPayloads == SeqsUpTo({NUL, UpperA}, MaxPayload)

HeaderInputs ==
    {Header(t, s, p) : t \in HeaderTypes \cup OtherTypes,
                       s \in DecimalSizes \cup OtherSizes,
                       p \in HeaderPayloads}
    \cup {<<>>, B_blob \o <<SP, 49>>, B_blob \o <<NUL>>, <<NUL>>}

(* name SP '<' email '>' SP timestamp SP timezone                          *)
Layout(name, email, timestamp, timezone) ==
    name \o <<SP, LT>> \o email \o <<GT, SP>> \o timestamp \o <<SP>> \o timezone

UserNames == {<<>>, <<77>>, <<74, 32, 68>>, <<195, 169>>, <<74, 32>>, <<62>>, <<65, 60>>}
UserEmails == {<<>>, <<97, 64, 98>>, <<60, 120>>, <<97, 62>>}
UserTimestamps == {<<>>, <<49, 50>>, <<43, 120>>, <<49, 32>>}
UserTimezones == {<<>>, <<45, 48, 54>>, <<97, 32, 98>>, <<62>>, <<192>>}

UserLayouts ==
    {Layout(n, e, ts, tz) : n \in UserNames, e \in UserEmails,
                            ts \in UserTimestamps, tz \in UserTimezones}

UserOthers ==
    { <<>>,
      <<77, 32, 97>>,                                   \* "M a": no '<'
      <<LT, 97, GT, SP, 49, SP, 50>>,                   \* "<a> 1 2"
      <<77, SP, LT, 97, GT>>,                           \* "M <a>"
      <<77, SP, LT, 97>>,                               \* "M <a": no '>'
      <<LT, 97>>,                                       \* "<a"
      <<77, SP, LT, 97, GT, SP, 49>>,                   \* "M <a> 1": no zone
      <<77, SP, LT, 97, GT, 49, SP, 50>>,               \* "M <a>1 2"
      <<77, LT, 97, GT, SP, 49, SP, 50>>,               \* "M<a> 1 2"
      <<255, SP, LT, 97, GT, SP, 49, SP, 50>>,          \* a name not UTF-8
      <<77, SP, LT, 97, GT, SP, 49, SP, 192>> }         \* a zone not UTF-8

UserInputs == UserLayouts \cup UserOthers

(* mode SP name NUL digest                                                 *)
EncodeEntry(e) == e.mode \o <<SP>> \o e.name \o <<NUL>> \o e.digest

EncodeTree(es) == Concat([i \in 1..Len(es) |-> EncodeEntry(es[i])])

Mode_file == <<49, 48, 48, 54, 52, 52>>
Mode_dir == <<52, 48, 48, 48, 48>>
Name_a == <<97, 46, 116, 120, 116>>
Name_dir == <<100, 105, 114>>

TreeEntries ==
    { [mode |-> Mode_file, name |-> Name_a, digest |-> D1],
      [mode |-> Mode_dir, name |-> Name_dir, digest |-> D2],
      [mode |-> Mode_file, name |-> Name_a, digest |-> D2],
      [mode |-> Mode_file, name |-> <<98>>, digest |-> D1] }

TreeEntrySeqs(n) == SeqsUpTo(TreeEntries, n)

(* what may follow the well-formed entries: nothing, an entry cut short    *)
(* after its name (0 or 19 bytes of digest), an entry without its          *)
(* separators, a name that is not UTF-8                                    *)
TreeTails ==
    { <<>>,
      Mode_file \o <<SP>> \o Name_a \o <<NUL>>,
      Mode_file \o <<SP>> \o Name_a \o <<NUL>> \o SubSeq(D1, 1, 19),
      <<255, SP>> \o Name_a \o <<NUL>> \o SubSeq(D1, 1, 3),
      Mode_file,
      Mode_file \o <<SP>> \o Name_a,
      Mode_file \o <<SP, 255, NUL>> \o D1 }

TreePayloads(n) == {EncodeTree(es) \o t : es \in TreeEntrySeqs(n), t \in TreeTails}

L_tree == B_tree \o <<SP>> \o HexEncode(D1)
L_tree_nothex == B_tree \o <<SP, 122, 122>>
L_parent == B_parent \o <<SP>> \o HexEncode(D2)
L_author == B_author \o <<SP>> \o Layout(<<77>>, <<109, 64, 120>>, <<49, 53>>, <<45, 48, 54>>)
L_committer == B_committer \o <<SP>> \o Layout(<<74, 32, 68>>, <<106, 64, 120>>, <<49, 54>>, <<43, 48, 49>>)

CommitLines == {L_tree, L_tree_nothex, L_parent, L_author, L_committer}

Message == <<73, 110, 105, 116, 46, LF>>

(* header lines, each ended by LF, then the blank line and the message     *)
EncodeCommit(ls) ==
    Concat([i \in 1..Len(ls) |-> ls[i] \o <<LF>>]) \o <<LF>> \o Message

CommitOthers ==
    { <<>>,
      L_tree \o <<LF>>,                                 \* no blank line
      L_tree,                                           \* no LF at all
      EncodeCommit(<<<<120, SP, 121>>>>),               \* field "x"
      EncodeCommit(<<B_tree>>),                         \* no space in the line
      EncodeCommit(<<B_tree \o <<SP, 97, 98>>>>),       \* a digest of 1 byte
      EncodeCommit(<<L_tree, B_tree \o <<SP, 97, 98>>>>),
      EncodeCommit(<<B_tree \o <<SP>> \o HexEncode(D1) \o <<97>>>>),
      EncodeCommit(<<B_parent \o <<SP, 122>>>>),
      EncodeCommit(<<B_author \o <<SP, LT, 97, GT, SP, 49, SP, 50>>>>),
      EncodeCommit(<<L_tree, L_author, B_committer \o <<SP, 77, SP, LT, 97, GT>>>>),
      EncodeCommit(<<L_author, B_author \o <<SP, LT, 97, GT>>>>),
      EncodeCommit(<<L_tree, L_parent, L_parent, L_author, L_committer>>) }

CommitInputs == {EncodeCommit(ls) : ls \in SeqsUpTo(CommitLines, MaxLines)} \cup CommitOthers

ObjectInputs ==
    HeaderInputs
    \cup {Object(B_tree, p) : p \in TreePayloads(1)}
    \cup {Object(B_commit, p) : p \in CommitOthers \cup
              {EncodeCommit(<<L_tree, L_author, L_committer>>)}}
    \cup {Object(B_tag, p) : p \in TreePayloads(1)}

----------------------------------------------------------------------------
(* The state: the function called and its argument, the position in it,    *)
(* the locals of the two loops, what it returned, and what links() of the  *)
(* returned node gave.                                                     *)

VARIABLES op, input, val, pc, bytes, tree, tree_cid, parents, author_info,
          committer_info, result, linksOut

vars == <<op, input, val, pc, bytes, tree, tree_cid, parents, author_info,
          committer_info, result, linksOut>>

locals == <<bytes, tree, tree_cid, parents, author_info, committer_info>>

Init ==
    /\ op = "none"
    /\ input = <<>>
    /\ val = NUL
    /\ pc = "idle"
    /\ bytes = <<>>
    /\ tree = Tree_new
    /\ tree_cid = None
    /\ parents = <<>>
    /\ author_info = None
    /\ committer_info = None
    /\ result = [kind |-> "none"]
    /\ linksOut = None

(* A function that returns at once.                                        *)
Returns(name, buf, r) ==
    /\ pc = "idle"
    /\ op' = name
    /\ input' = buf
    /\ pc' = "done"
    /\ result' = r
    /\ UNCHANGED <<locals, linksOut>>

Call_cleave_out_at_value(s, v) ==
    /\ Returns("cleave_out_at_value", s, cleave_out_at_value(s, v))
    /\ val' = v

Call_sha1_to_cid(digest) ==
    /\ Returns("sha1_to_cid", digest, sha1_to_cid(digest))
    /\ UNCHANGED val

Call_parse_object_header(buf) ==
    /\ Returns("parse_object_header", buf, parse_object_header(buf))
    /\ UNCHANGED val

Call_parse_user_info(buf) ==
    /\ Returns("parse_user_info", buf, parse_user_info(buf))
    /\ UNCHANGED val

Call_parse_tree_object(buf) ==
    /\ pc = "idle"
    /\ op' = "parse_tree_object"
    /\ input' = buf
    /\ bytes' = buf
    /\ tree' = Tree_new
    /\ pc' = "tree_loop"
    /\ UNCHANGED <<val, tree_cid, parents, author_info, committer_info,
                   result, linksOut>>

Call_parse_commit_object(buf) ==
    /\ pc = "idle"
    /\ op' = "parse_commit_object"
    /\ input' = buf
    /\ bytes' = buf
    /\ tree_cid' = None
    /\ parents' = <<>>
    /\ author_info' = None
    /\ committer_info' = None
    /\ pc' = "commit_loop"
    /\ UNCHANGED <<val, tree, result, linksOut>>

(* parse_object: the header, then the parser of the declared type.         *)
Call_parse_object(buf) ==
    LET h == parse_object_header(buf)
    IN  /\ pc = "idle"
        /\ op' = "parse_object"
        /\ input' = buf
        /\ UNCHANGED <<val, tree, tree_cid, parents, author_info,
                       committer_info, linksOut>>
        /\ IF h.kind # "ok"
           THEN pc' = "done" /\ result' = h /\ UNCHANGED bytes
           ELSE CASE h.obj_type = "Blob" ->
                       /\ pc' = "done"
                       /\ result' = parse_blob_object(h.bytes)
                       /\ UNCHANGED bytes
                  [] h.obj_type = "Tree" ->
                       /\ pc' = "tree_loop"
                       /\ bytes' = h.bytes
                       /\ UNCHANGED result
                  [] h.obj_type = "Commit" ->
                       /\ pc' = "commit_loop"
                       /\ bytes' = h.bytes
                       /\ UNCHANGED result
                  [] h.obj_type = "Tag" ->
                       /\ pc' = "done"
                       /\ result' = Panic("not yet implemented")
                       /\ UNCHANGED bytes

(* One turn of `while let (Some(entry), rest) = parse_tree_entry(bytes)?`. *)
TreeLoop ==
    LET r == parse_tree_entry(bytes)
    IN  /\ pc = "tree_loop"
        /\ UNCHANGED <<op, input, val, tree_cid, parents, author_info,
                       committer_info, linksOut>>
        /\ IF r.kind # "ok"
           THEN pc' = "done" /\ result' = r /\ UNCHANGED <<bytes, tree>>
           ELSE IF ~r.entry.some
           THEN /\ pc' = "done"
                /\ result' = [kind |-> "ok", node |-> tree]
                /\ UNCHANGED <<bytes, tree>>
           ELSE /\ bytes' = r.rest
                /\ tree' = add_entry(tree, r.entry.v)
                /\ UNCHANGED <<pc, result>>

(* One turn of the `loop` of parse_commit_object; the turn that reads the  *)
(* blank line leaves the loop and runs the code after it.                  *)
CommitLoop ==
    LET c == cleave_out_at_value(bytes, LF)
        line == c.before
        f == cleave_out_at_value(line, SP)
        name == f.before
        data == f.after
        Ends(r) == /\ pc' = "done"
                   /\ result' = r
                   /\ UNCHANGED <<tree_cid, parents, author_info, committer_info>>
        Arm(r, new) == IF r.kind # "ok" THEN Ends(r)
                       ELSE new /\ UNCHANGED <<pc, result>>
    IN  /\ pc = "commit_loop"
        /\ UNCHANGED <<op, input, val, tree, linksOut>>
        /\ IF ~c.some
           THEN Ends(Err("Unexpected end of bytes")) /\ UNCHANGED bytes
           ELSE
           /\ bytes' = c.after
           /\ IF Len(line) = 0
              THEN Ends(commit_finish(tree_cid, parents, author_info, committer_info))
              ELSE IF ~f.some
              THEN Ends(Err("Invalid commit header line"))
              ELSE CASE name = B_tree ->
                          LET r == commit_tree_field(tree_cid, data)
                          IN  Arm(r, /\ tree_cid' = r.v
                                     /\ UNCHANGED <<parents, author_info, committer_info>>)
                     [] name = B_parent ->
                          LET r == commit_parent_field(parents, data)
                          IN  Arm(r, /\ parents' = r.v
                                     /\ UNCHANGED <<tree_cid, author_info, committer_info>>)
                     [] name = B_author ->
                          LET r == commit_author_field(author_info, data)
                          IN  Arm(r, /\ author_info' = r.v
                                     /\ UNCHANGED <<tree_cid, parents, committer_info>>)
                     [] name = B_committer ->
                          LET r == commit_committer_field(committer_info, data)
                          IN  Arm(r, /\ committer_info' = r.v
                                     /\ UNCHANGED <<tree_cid, parents, author_info>>)
                     [] OTHER ->
                          Ends([kind |-> "err",
                                msg |-> "Unrecognized commit header field name",
                                name |-> name])

(* links() of the node a parser returned.                                  *)
Links ==
    /\ pc = "done"
    /\ op \in {"parse_object", "parse_tree_object", "parse_commit_object"}
    /\ result.kind = "ok"
    /\ ~linksOut.some
    /\ \E ls \in links_of(result.node) : linksOut' = Some(ls)
    /\ UNCHANGED <<op, input, val, pc, locals, result>>

Next ==
    \/ \E s \in CleaveInputs, v \in CleaveBytes : Call_cleave_out_at_value(s, v)
    \/ \E d \in DigestInputs : Call_sha1_to_cid(d)
    \/ \E b \in HeaderInputs : Call_parse_object_header(b)
    \/ \E b \in UserInputs : Call_parse_user_info(b)
    \/ \E b \in TreePayloads(MaxEntries) : Call_parse_tree_object(b)
    \/ \E b \in CommitInputs : Call_parse_commit_object(b)
    \/ \E b \in ObjectInputs : Call_parse_object(b)
    \/ TreeLoop
    \/ CommitLoop
    \/ Links

Spec == Init /\ [][Next]_vars

----------------------------------------------------------------------------
(* What the properties below read off a buffer, written without the        *)
(* parsers' own helpers.                                                   *)

Has(s, v) == \E i \in 1..Len(s) : s[i] = v

Pos(s, v) == CHOOSE i \in 1..Len(s) : s[i] = v /\ \A j \in 1..(i-1) : s[j] # v

Before(s, v) == SubSeq(s, 1, Pos(s, v) - 1)

After(s, v) == SubSeq(s, Pos(s, v) + 1, Len(s))

(* the identifier the specification gives a 20-byte digest                 *)
CidOf(d) == [version |-> 1, codec |-> "GitRaw", hash |-> <<17, 20>> \o d]

(* the header lines of a commit payload: those before the blank line       *)
RECURSIVE HeaderLines(_)
HeaderLines(b) ==
    IF ~Has(b, LF) \/ Before(b, LF) = <<>> THEN <<>>
    ELSE <<Before(b, LF)>> \o HeaderLines(After(b, LF))

FieldOf(line) == IF Has(line, SP) THEN Before(line, SP) ELSE line

Count(b, field) ==
    Cardinality({i \in 1..Len(HeaderLines(b)) : FieldOf(HeaderLines(b)[i]) = field})

IsHex(data) ==
    /\ Len(data) % 2 = 0
    /\ \A i \in 1..Len(data) :
          data[i] \in (48..57) \cup (97..102) \cup (65..70)

----------------------------------------------------------------------------
(* C1: parse_object on a well-formed object of type tag returns an error   *)
(* value; it does not panic and returns no node.                           *)
C1_TagIsAnError ==
    (/\ op = "parse_object"
     /\ pc = "done"
     /\ \E p \in HeaderPayloads \cup TreePayloads(1) : input = Object(B_tag, p))
    => result.kind = "err"

(* C2: links() of the Tree parse_tree returns for entries e1..en gives     *)
(* exactly n links, the k-th being cid(digest of ek), duplicate names      *)
(* included.                                                               *)
C2_LinksInDeclarationOrder ==
    (op = "parse_tree_object" /\ pc = "done" /\ linksOut.some) =>
        \A es \in TreeEntrySeqs(MaxEntries) :
            input = EncodeTree(es)
            => linksOut.v = [k \in 1..Len(es) |-> [cid |-> CidOf(es[k].digest)]]

(* C3: a tree payload whose last entry has its mode and its name but       *)
(* fewer than 20 bytes after the name's null byte gives a truncated-hash   *)
(* error value, not a panic.                                               *)
C3_TruncatedHashIsAnError ==
    (/\ op = "parse_tree_object"
     /\ pc = "done"
     /\ \E es \in TreeEntrySeqs(MaxEntries), t \in TreeTails :
           /\ input = EncodeTree(es) \o t
           /\ Has(t, SP) /\ Has(After(t, SP), NUL)
           /\ Len(After(After(t, SP), NUL)) < 20)
    => result.kind = "err"

(* C4: parse_user_info returns a UserInfo or an error value for every      *)
(* byte string, and never panics.                                          *)
C4_UserInfoNeverPanics ==
    (op = "parse_user_info" /\ pc = "done") => result.kind \in {"ok", "err"}

(* C5, as claimed: for <type> SP N NUL payload with N any decimal number,  *)
(* parse_object_header succeeds exactly when the payload has N bytes,      *)
(* returns the payload then, and a size-mismatch error carrying N and the  *)
(* payload's length otherwise.                                             *)
C5_Body(t, s, p) ==
    input = Header(t, s, p)
    => LET same == StripZeros(s) = ToU64(Len(p))
       IN  /\ result.kind = "ok" <=> same
           /\ same => result.bytes = p
           /\ ~same => /\ result.kind = "err"
                       /\ result.msg = "Size mismatch"
                       /\ result.declared = StripZeros(s)
                       /\ result.actual = ToU64(Len(p))

C5_AnyDecimalSize ==
    (op = "parse_object_header" /\ pc = "done") =>
        \A t \in HeaderTypes, s \in DecimalSizes, p \in HeaderPayloads :
            C5_Body(t, s, p)

(* C5, amended: the same for every N no greater than                       *)
(* 18446744073709551615, the greatest u64.                                 *)
C5_SizeWithinU64 ==
    (op = "parse_object_header" /\ pc = "done") =>
        \A t \in HeaderTypes, s \in DecimalSizes, p \in HeaderPayloads :
            DigitsLeq(StripZeros(s), U64_MAX) => C5_Body(t, s, p)

C5_Witness ==
    /\ op = "parse_object_header"
    /\ pc = "done"
    /\ result.kind = "err"
    /\ result.msg = "Size mismatch"
    /\ result.declared = <<49>>
    /\ result.actual = <<50>>

(* C6: what one turn of the header loop of parse_commit may do.  A Commit  *)
(* is returned only when tree, author and committer each occur exactly     *)
(* once among the header lines and no other field but parent does; the     *)
(* blank line with one of the three missing gives a missing-field error    *)
(* naming a missing field; a second author or committer line gives the     *)
(* duplicate error of its field, and so does a second tree line (with     *)
(* hexOnly: one whose value is hexadecimal, any other giving the           *)
(* invalid-hexadecimal error).                                             *)
C6_Turn(hexOnly) ==
    (op = "parse_commit_object" /\ pc = "commit_loop") =>
        /\ (pc' = "done" /\ result'.kind = "ok") =>
              /\ Count(input, B_tree) = 1
              /\ Count(input, B_author) = 1
              /\ Count(input, B_committer) = 1
              /\ \A i \in 1..Len(HeaderLines(input)) :
                    /\ Has(HeaderLines(input)[i], SP)
                    /\ FieldOf(HeaderLines(input)[i]) \in
                          {B_tree, B_parent, B_author, B_committer}
        /\ Has(bytes, LF) =>
              LET line == Before(bytes, LF)
                  missing == {f \in {"tree", "author", "committer"} :
                                \/ f = "tree" /\ ~tree_cid.some
                                \/ f = "author" /\ ~author_info.some
                                \/ f = "committer" /\ ~committer_info.some}
              IN  /\ (line = <<>> /\ missing # {}) =>
                        /\ pc' = "done"
                        /\ result'.kind = "err"
                        /\ result'.msg = "Missing header field"
                        /\ result'.field \in missing
                  /\ (Has(line, SP) /\ FieldOf(line) = B_tree /\ tree_cid.some) =>
                        /\ pc' = "done"
                        /\ result' = IF hexOnly /\ ~IsHex(After(line, SP))
                                     THEN Err("Tree hash is not valid hexadecimal")
                                     ELSE Err("Invalid second tree entry found")
                  /\ (Has(line, SP) /\ FieldOf(line) = B_author /\ author_info.some) =>
                        /\ pc' = "done"
                        /\ result' = Err("Invalid second author entry found")
                  /\ (Has(line, SP) /\ FieldOf(line) = B_committer /\ committer_info.some) =>
                        /\ pc' = "done"
                        /\ result' = Err("Invalid second committer entry found")

(* C6, as claimed: every second tree line gives the duplicate-tree error.  *)
C6_SecondTreeIsDuplicate == [][C6_Turn(FALSE)]_vars

(* C6, amended: a second tree line gives the duplicate-tree error when its *)
(* value is hexadecimal, and the invalid-hexadecimal error when it is not. *)
C6_SecondTreeIsDuplicateIfHex == [][C6_Turn(TRUE)]_vars

C6_Witness ==
    /\ op = "parse_commit_object"
    /\ pc = "done"
    /\ result = Err("Invalid second tree entry found")
    /\ author_info.some

(* C7: on name SP '<' email '>' SP timestamp SP timezone, with no '<' in   *)
(* the name, no '>' in the email, no space in the timestamp and the four   *)
(* of them UTF-8, parse_user_info returns exactly the four parts.          *)
C7_UserInfoParts ==
    (op = "parse_user_info" /\ pc = "done") =>
        \A n \in UserNames, e \in UserEmails, ts \in UserTimestamps,
           tz \in UserTimezones :
            (/\ input = Layout(n, e, ts, tz)
             /\ ~Has(n, LT) /\ ~Has(e, GT) /\ ~Has(ts, SP)
             /\ \A x \in {n, e, ts, tz} : from_utf8_ok(x))
            => result = [kind |-> "ok",
                         info |-> [name |-> n, email |-> e,
                                   timestamp |-> ts, timezone |-> tz]]

C7_Witness ==
    /\ op = "parse_user_info"
    /\ pc = "done"
    /\ input = Layout(<<74, 32, 68>>, <<97, 64, 98>>, <<49, 50>>, <<45, 48, 54>>)
    /\ result.kind = "ok"
    /\ result.info.name = <<74, 32, 68>>
    /\ result.info.timezone = <<45, 48, 54>>

(* C8: sha1_to_cid gives the invalid-length error exactly for a digest     *)
(* that is not 20 bytes long; for a digest D of 20 bytes it gives version  *)
(* 1, the git-raw codec and the multihash [0x11, 20, D...], whose last 20  *)
(* bytes are D.                                                            *)
C8_Sha1ToCid ==
    (op = "sha1_to_cid" /\ pc = "done") =>
        /\ result.kind = "err" <=> Len(input) # 20
        /\ result.kind = "err" =>
              result.msg = "Cannot convert byte slice to Cid" /\ result.len = Len(input)
        /\ Len(input) = 20 =>
              /\ result.kind = "ok"
              /\ result.cid = CidOf(input)
              /\ SubSeq(result.cid.hash, Len(result.cid.hash) - 19, Len(result.cid.hash)) = input

C8_Witness ==
    /\ op = "sha1_to_cid"
    /\ pc = "done"
    /\ Len(input) = 20
    /\ result.kind = "ok"
    /\ result.cid.hash[1] = 17

(* C9: cleave_out_at_value(s, v) is absent exactly when v is not in s;     *)
(* otherwise it is (s[0..i), s[i+1..)) for the first i with s[i] = v.      *)
C9_Cleave ==
    (op = "cleave_out_at_value" /\ pc = "done") =>
        /\ ~result.some <=> ~Has(input, val)
        /\ Has(input, val) =>
              /\ result.before = SubSeq(input, 1, Pos(input, val) - 1)
              /\ result.after = SubSeq(input, Pos(input, val) + 1, Len(input))
              /\ ~Has(result.before, val)
              /\ result.before \o <<val>> \o result.after = input

C9_Witness ==
    /\ op = "cleave_out_at_value"
    /\ pc = "done"
    /\ Len(input) = 3
    /\ input[1] = val
    /\ input[3] = val
    /\ result.some
    /\ result.before = <<>>
    /\ Len(result.after) = 2

(* C10: a turn of the tree loop or of the commit loop that does not end    *)
(* the parse leaves fewer bytes than it found, so a parse takes no more    *)
(* turns than its input has bytes.                                         *)
C10_LoopsConsume ==
    [][(pc \in {"tree_loop", "commit_loop"} /\ pc' = pc)
          => Len(bytes') < Len(bytes)]_vars

C10_Witness ==
    /\ pc = "commit_loop"
    /\ Len(parents) = 2
    /\ Len(bytes) < Len(input)

====
